---------------------------- MODULE Spec2Model ----------------------------
(***************************************************************************)
(* Scan-and-ingest engine of the Hawaii Legislature scraper.               *)
(*                                                                         *)
(*   data-scraper/src : BillScraper, MemberScraper, DatabaseManager,       *)
(*                      BatchScraper, models                               *)
(*   backend/src      : HawaiiLegislatureScraper, ScrapingStats            *)
(*                                                                         *)
(* The persistent store is the set of committed rows of each table.  A     *)
(* database session is a transaction: rows added to it are pending until   *)
(* commit makes them all visible at once, or rollback discards them.       *)
(***************************************************************************)
EXTENDS Integers, Sequences, FiniteSets, TLC

----------------------------------------------------------------------------
(* Bounds of the model *)

\* most entries a page has in one child collection
MaxChildren == 1
\* rows of bills plus member_terms up to which concurrent pipelines are started
MaxRows == 1

----------------------------------------------------------------------------
(* Inputs *)

\* pipelines that can run against the store (processes / threads)
Workers == {1, 2}

\* bill types of the candidate keys (two of the seven of BatchScraper.bill_types)
BillTypes == {"SB", "HB"}

BillNumbers == {1}

BillYears == {2025}

MemberIds == {253}

Years == {2024, 2025}

BillKeys == [bill_type : BillTypes, bill_number : BillNumbers, year : BillYears]

MemberKeys == [member_id : MemberIds, year : Years]

\* a bill page with c entries in each of its three child collections
BillPages == {[kind |-> "page", status |-> c, versions |-> c, reports |-> c] :
                 c \in 0..MaxChildren}

\* a member page with its committee list
MemberPages == [kind : {"page"}, committees : 0..MaxChildren]

Max(S) == IF S = {} THEN 0 ELSE CHOOSE x \in S : \A y \in S : y <= x


----------------------------------------------------------------------------
(* The store: models.py *)

\* rows of table bills; no uniqueness constraint is declared on
\* (bill_type, bill_number, year)
BillRow(i, k) == [id |-> i, bill_type |-> k.bill_type, bill_number |-> k.bill_number, year |-> k.year]

\* rows of bill_status_updates, bill_versions and bill_committee_reports
ChildRow(i, parent, n) == [id |-> i, bill_id |-> parent, n |-> n]

\* rows of table members; member_id is declared unique
MemberRow(i, m) == [id |-> i, member_id |-> m]

\* rows of table member_terms; member_id refers to members.member_id
MemberTermRow(i, k) == [id |-> i, member_id |-> k.member_id, year |-> k.year]

\* rows of table member_committees
MemberCommitteeRow(i, term, n) == [id |-> i, member_term_id |-> term, n |-> n]

Tables == {"bills", "status_updates", "versions", "committee_reports",
           "members", "member_terms", "member_committees"}

EmptyDb == [t \in Tables |-> {}]

VARIABLES
    site,      \* what the source serves at each key, fixed once observed
    db,        \* committed rows of every table
    pending,   \* per pipeline: rows of its open session, not yet committed
    pc,        \* per pipeline: position in scrape_bill / scrape_member
    key,       \* per pipeline: the key being scraped
    page,      \* per pipeline: the fetched page (None when the fetch failed)
    ret,       \* per pipeline: value returned by the call
    result     \* per pipeline: the path the call took

storeVars == <<site, db, pending, pc, key, page, ret, result>>

VARIABLES
    scanArgs,      \* BatchScraper: the closed scan that was asked for, its arguments
    scanPc,        \* BatchScraper: position in the scan
    processed,     \* BatchScraper: iterations of the scan loop that completed
    stats,         \* BatchScraper.stats, a ScrapingStats
    runs,          \* completed runs of the scan
    dispatched,    \* keys for which this run called the scraper, in order
    dbAfterFirst,  \* the store as the first run of the scan left it
    success_count  \* scrape_member_range: calls that returned True so far

batchVars == <<scanArgs, scanPc, processed, stats, runs, dispatched, dbAfterFirst,
               success_count>>

VARIABLES
    scanning,          \* HawaiiLegislatureScraper: position in its year scan
    scan_year,         \* the year being scanned
    type_index,        \* index of bill_type in self.bill_types
    bill_number,       \* scrape_bills_for_year: next sequence number
    consecutive_404s,  \* scrape_bills_for_year: consecutive misses
    member_id,         \* scrape_members_for_year: next member id
    log,               \* outcomes of the attempts of the current dimension
    last_key,          \* sequence number or id of the latest attempt
    success,           \* the value the latest scrape_bill / scrape_member returned
    stops              \* how each finished dimension of the scan stopped

scanVars == <<scanning, scan_year, type_index, bill_number, consecutive_404s,
              member_id, log, last_key, success, stops>>

VARIABLES
    client,      \* the fetch client in use: bill, member or backend scraper
    fpc,         \* position of the client's caller: ready to fetch, or returned
    fetches,     \* fetch calls made by the client so far
    bootstraps,  \* requests to the root resource made by the client so far
    fetched,     \* the latest fetch call: what was served, what it did and returned
    wire         \* every request and sleep of the client's run, in order

fetchVars == <<client, fpc, fetches, bootstraps, fetched, wire>>

VARIABLES
    counters,    \* a ScrapingStats object that several threads share
    inc,         \* per thread: the += 1 it is in, with the value it read
    calls        \* per counter: calls of its record_ method since the reset

statsVars == <<counters, inc, calls>>

\* state of the scan drivers, which a scraper call does not touch
driverVars == <<batchVars, scanVars, fetchVars, statsVars>>

NoKey == [none |-> TRUE]

Keys == BillKeys \cup MemberKeys

Unknown == [kind |-> "unknown"]

Absent == [kind |-> "absent"]

NoAnchor == [kind |-> "nopage"]

NoPage == [kind |-> "none"]

SiteValues(k) == IF k \in BillKeys THEN {Absent, NoAnchor} \cup BillPages
                                   ELSE {Absent, NoAnchor} \cup MemberPages

\* union of two store states, table by table
Merge(d, p) == [t \in Tables |-> d[t] \cup p[t]]

\* rows of table t that exist anywhere: committed or in an open session
AllRows(t) == db[t] \cup UNION {pending[w][t] : w \in Workers}

\* ids of table t not used by any row, committed or pending
FreeIds(t, n) == (1..(Cardinality(AllRows(t)) + n)) \ {r.id : r \in AllRows(t)}

\* the primary key the database gives the i-th of n new rows of table t
NthFreshId(t, i, n) ==
    CHOOSE x \in FreeIds(t, n) : Cardinality({j \in FreeIds(t, n) : j < x}) = i - 1

\* the primary key the database gives the next row of table t
FreshId(t) == NthFreshId(t, 1, 1)


----------------------------------------------------------------------------
(* Fetching a page: fetch_bill_page, fetch_member_page, fetch_page *)

\* one more attempt than the default is made
max_retries_more == 3 + 1

max_retries == 3

\* what the network does with one request
NetOutcomes == {"ok", "http_error", "exception"}

\* the response to one request for a resource whose site value is sv
Response(sv, n) == IF n = "ok" THEN (IF sv.kind = "absent" THEN "404" ELSE "200") ELSE n

\* a retry loop that treats a 404 like any other error status: sleep, retry
RECURSIVE RetryLoopRetries404(_, _, _)
RetryLoopRetries404(resps, attempt, sleeps) ==
    IF attempt >= max_retries
    THEN [outcome |-> "Exhausted", requests |-> attempt, sleeps |-> sleeps]
    ELSE IF resps[attempt + 1] = "200"
    THEN [outcome |-> "Found", requests |-> attempt + 1, sleeps |-> sleeps]
    ELSE RetryLoopRetries404(resps, attempt + 1, Append(sleeps, 2 ^ attempt))

\* the retry loop: attempt counts from 0, resps[attempt + 1] is the response
\* to its request, sleeps collects the arguments of time.sleep
RECURSIVE RetryLoop(_, _, _)
RetryLoop(resps, attempt, sleeps) ==
    IF attempt >= max_retries
    THEN [outcome |-> "Exhausted", requests |-> attempt, sleeps |-> sleeps]
    ELSE LET r == resps[attempt + 1] IN
         IF r = "200"
         THEN [outcome |-> "Found", requests |-> attempt + 1, sleeps |-> sleeps]
         ELSE IF r = "404"
         THEN [outcome |-> "Absent", requests |-> attempt + 1, sleeps |-> sleeps]
         ELSE IF r = "http_error"
         THEN RetryLoop(resps, attempt + 1, Append(sleeps, 2 ^ attempt))
         ELSE IF attempt < max_retries - 1
              THEN RetryLoop(resps, attempt + 1, Append(sleeps, 2 ^ attempt))
              ELSE RetryLoop(resps, attempt + 1, sleeps)

\* fetch of a resource with site value sv when the network behaves as net
FetchPage(sv, net) == RetryLoop([i \in 1..max_retries |-> Response(sv, net[i])], 0, <<>>)

NetSeqs == [1..max_retries -> NetOutcomes]


----------------------------------------------------------------------------
(* Sessions: database.py, and the query / add / flush / commit / rollback   *)
(* calls of scrape_bill and scrape_member                                   *)

\* the filter compares the year column with another year than the key's
ExistingBillOtherYear(rows, k) ==
    \E b \in rows : b.bill_type = k.bill_type /\ b.bill_number = k.bill_number /\ b.year = k.year + 1

\* the query is not made: no bill is ever found to exist
ExistingBillNever(rows, k) == FALSE

\* session.query(Bill).filter_by(bill_type, bill_number, year).first()
ExistingBill(rows, k) ==
    \E b \in rows : b.bill_type = k.bill_type /\ b.bill_number = k.bill_number /\ b.year = k.year

\* the arguments member_id and year are passed in the wrong order
member_term_exists_swapped(rows, k) ==
    \E t \in rows : t.member_id = k.year /\ t.year = k.member_id

\* the check looks at member_id alone
member_exists_any_year(rows, k) == \E t \in rows : t.member_id = k.member_id

\* DatabaseManager.member_term_exists
member_term_exists(rows, k) ==
    \E t \in rows : t.member_id = k.member_id /\ t.year = k.year

\* the query of DatabaseManager.get_or_create_member
ExistingMember(rows, m) == \E r \in rows : r.member_id = m

\* the unique constraint of members.member_id
UniqueMemberId(rows) == \A a, b \in rows : a.member_id = b.member_id => a = b

\* store after session.commit() of a session holding the rows p
Committed(d, p) == Merge(d, p)

\* the parent rows were committed when they were flushed, so that a rollback
\* takes back the child rows only
RolledBackChildrenOnly(d, p) ==
    [d EXCEPT !["bills"] = @ \cup p["bills"], !["members"] = @ \cup p["members"],
              !["member_terms"] = @ \cup p["member_terms"]]

\* store after session.rollback() (or close) of a session holding the rows p
RolledBack(d, p) == d

\* the parent was never flushed, so that its id is not set when the children
\* are built
NewChildrenUnflushed(t, parent, n) == {ChildRow(NthFreshId(t, i, n), 0, i) : i \in 1..n}

\* child rows of one collection: n entries for parent row `parent`
NewChildren(t, parent, n) == {ChildRow(NthFreshId(t, i, n), parent, i) : i \in 1..n}

\* member_committees rows for a term
NewCommittees(term, n) ==
    {MemberCommitteeRow(NthFreshId("member_committees", i, n), term, i) : i \in 1..n}

\* the call returns value through path; finally closes the session
Finish(w, value, path) ==
    /\ pc' = [pc EXCEPT ![w] = "done"]
    /\ ret' = [ret EXCEPT ![w] = value]
    /\ result' = [result EXCEPT ![w] = path]
    /\ pending' = [pending EXCEPT ![w] = EmptyDb]

\* except: rollback, return False
Fail(w, path) ==
    /\ Finish(w, "False", path)
    /\ db' = RolledBack(db, pending[w])
    /\ UNCHANGED <<site, key, page>>

\* the pipeline of w moves on to step `next` with its session holding rows p
Advance(w, next, p) ==
    /\ pc' = [pc EXCEPT ![w] = next]
    /\ pending' = [pending EXCEPT ![w] = p]
    /\ UNCHANGED <<site, db, key, page, ret, result>>


----------------------------------------------------------------------------
(* BillScraper.scrape_bill and MemberScraper.scrape_member, step by step *)

\* a scraper call starts on pipeline w
Call(w, k) ==
    /\ pc[w] = "idle"
    /\ pc' = [pc EXCEPT ![w] = "fetch"]
    /\ key' = [key EXCEPT ![w] = k]
    /\ page' = [page EXCEPT ![w] = NoPage]
    /\ ret' = [ret EXCEPT ![w] = "None"]
    /\ result' = [result EXCEPT ![w] = "None"]
    /\ UNCHANGED <<site, db, pending>>

\* the anchor is taken to be there whatever the page holds
HasAnchorAlways(sv) == TRUE

\* soup.find of the anchor of a valid page: the measure link of a bill, the
\* legislator-name label of a member
HasAnchor(sv) == sv.kind = "page"

\* the fetch, the anchor check and the creation of the session
\* (unchanged: the source serves the same thing at a key every time)
FetchStep(w, unchanged) ==
    /\ pc[w] = "fetch"
    /\ \E sv \in SiteValues(key[w]), net \in NetSeqs, parses \in BOOLEAN :
         LET f == FetchPage(sv, net) IN
         /\ site[key[w]] \in {Unknown, sv}
         /\ site' = IF unchanged /\ f.outcome # "Exhausted"
                    THEN [site EXCEPT ![key[w]] = sv] ELSE site
         /\ IF f.outcome # "Found"
            THEN Finish(w, "False", f.outcome) /\ UNCHANGED page
            ELSE IF ~parses
            THEN Finish(w, "raised", "Raised") /\ UNCHANGED page
            ELSE IF ~HasAnchor(sv)
            THEN Finish(w, "False", "Invalid") /\ UNCHANGED page
            ELSE /\ pc' = [pc EXCEPT ![w] = "check"]
                 /\ page' = [page EXCEPT ![w] = sv]
                 /\ UNCHANGED <<ret, result, pending>>
    /\ UNCHANGED <<db, key>>
    /\ UNCHANGED driverVars

\* scrape_bill: the existence check
CheckBill(w) ==
    /\ pc[w] = "check" /\ key[w] \in BillKeys
    /\ IF ExistingBill(db["bills"], key[w])
       THEN Finish(w, "True", "AlreadyExists") /\ UNCHANGED <<site, db, key, page>>
       ELSE Advance(w, "insert", pending[w])
    /\ UNCHANGED driverVars

\* scrape_bill: db_session.add(bill); db_session.flush()
InsertBill(w) ==
    /\ pc[w] = "insert" /\ key[w] \in BillKeys
    /\ \/ Advance(w, "children",
                  [pending[w] EXCEPT !["bills"] = @ \cup {BillRow(FreshId("bills"), key[w])}])
       \/ Fail(w, "StoreError")
    /\ UNCHANGED driverVars

\* scrape_bill: the three loops adding status updates, versions and reports
AddBillChildren(w) ==
    /\ pc[w] = "children" /\ key[w] \in BillKeys
    /\ \/ LET bill == CHOOSE b \in pending[w]["bills"] : TRUE IN
          Advance(w, "commit",
                  [pending[w] EXCEPT
                     !["status_updates"] = NewChildren("status_updates", bill.id, page[w].status),
                     !["versions"] = NewChildren("versions", bill.id, page[w].versions),
                     !["committee_reports"] =
                         NewChildren("committee_reports", bill.id, page[w].reports)])
       \/ Fail(w, "StoreError")
    /\ UNCHANGED driverVars

\* scrape_member: member_term_exists
CheckTerm(w) ==
    /\ pc[w] = "check" /\ key[w] \in MemberKeys
    /\ IF member_term_exists(db["member_terms"], key[w])
       THEN Finish(w, "True", "AlreadyExists") /\ UNCHANGED <<site, db, key, page>>
       ELSE Advance(w, "member", pending[w])
    /\ UNCHANGED driverVars

\* DatabaseManager.get_or_create_member: the flush waits while another open
\* session holds an uncommitted row with the same member_id
get_or_create_member(w) ==
    /\ pc[w] = "member" /\ key[w] \in MemberKeys
    /\ \/ /\ ExistingMember(db["members"], key[w].member_id)
          /\ Advance(w, "insert", pending[w])
       \/ /\ ~ExistingMember(AllRows("members"), key[w].member_id)
          /\ Advance(w, "insert",
                     [pending[w] EXCEPT !["members"] =
                          @ \cup {MemberRow(FreshId("members"), key[w].member_id)}])
       \/ /\ ~ExistingMember(db["members"], key[w].member_id)
          /\ Fail(w, "StoreError")
    /\ UNCHANGED driverVars

\* scrape_member: db_session.add(member_term); db_session.flush()
InsertTerm(w) ==
    /\ pc[w] = "insert" /\ key[w] \in MemberKeys
    /\ \/ Advance(w, "children",
                  [pending[w] EXCEPT !["member_terms"] =
                       @ \cup {MemberTermRow(FreshId("member_terms"), key[w])}])
       \/ Fail(w, "StoreError")
    /\ UNCHANGED driverVars

\* scrape_member: the loop adding committee memberships
AddCommittees(w) ==
    /\ pc[w] = "children" /\ key[w] \in MemberKeys
    /\ \/ LET term == CHOOSE t \in pending[w]["member_terms"] : TRUE IN
          Advance(w, "commit",
                  [pending[w] EXCEPT !["member_committees"] =
                       NewCommittees(term.id, page[w].committees)])
       \/ Fail(w, "StoreError")
    /\ UNCHANGED driverVars

\* db_session.commit(), return True
Commit(w) ==
    /\ pc[w] = "commit"
    /\ \/ /\ UniqueMemberId(db["members"] \cup pending[w]["members"])
          /\ db' = Committed(db, pending[w])
          /\ Finish(w, "True", "Inserted")
          /\ UNCHANGED <<site, key, page>>
       \/ Fail(w, "StoreError")
    /\ UNCHANGED driverVars

\* the caller takes the returned value
TakeResult(w) ==
    /\ pc[w] = "done"
    /\ pc' = [pc EXCEPT ![w] = "idle"]
    /\ key' = [key EXCEPT ![w] = NoKey]
    /\ page' = [page EXCEPT ![w] = NoPage]
    /\ ret' = [ret EXCEPT ![w] = "None"]
    /\ result' = [result EXCEPT ![w] = "None"]
    /\ UNCHANGED <<site, db, pending>>

\* the process running pipeline w is killed: its open session never commits
Abort(w) ==
    /\ pc[w] \notin {"idle", "done"}
    /\ pc' = [pc EXCEPT ![w] = "idle"]
    /\ pending' = [pending EXCEPT ![w] = EmptyDb]
    /\ key' = [key EXCEPT ![w] = NoKey]
    /\ page' = [page EXCEPT ![w] = NoPage]
    /\ ret' = [ret EXCEPT ![w] = "None"]
    /\ result' = [result EXCEPT ![w] = "None"]
    /\ UNCHANGED <<site, db>>
    /\ UNCHANGED driverVars

\* a direct caller of scrape_bill / scrape_member takes the returned value
Return(w) == TakeResult(w) /\ UNCHANGED driverVars

\* the steps of a scraper call between its start and its return
Pipeline(w, unchanged) ==
    \/ FetchStep(w, unchanged)
    \/ CheckBill(w)
    \/ InsertBill(w)
    \/ AddBillChildren(w)
    \/ CheckTerm(w)
    \/ get_or_create_member(w)
    \/ InsertTerm(w)
    \/ AddCommittees(w)
    \/ Commit(w)

Step(w) == Pipeline(w, FALSE) \/ Return(w) \/ Abort(w)

StoreInit ==
    /\ site = [k \in Keys |-> Unknown]
    /\ db = EmptyDb
    /\ pending = [w \in Workers |-> EmptyDb]
    /\ pc = [w \in Workers |-> "idle"]
    /\ key = [w \in Workers |-> NoKey]
    /\ page = [w \in Workers |-> NoPage]
    /\ ret = [w \in Workers |-> "None"]
    /\ result = [w \in Workers |-> "None"]

\* one scraper call at a time, one after the other
CallSeq(w) ==
    /\ w = 1
    /\ \A v \in Workers : pc[v] = "idle"
    /\ \E k \in Keys : Call(w, k)
    /\ UNCHANGED driverVars

\* a scraper call starts while others may be running
CallConc(w) ==
    /\ Cardinality(db["bills"]) + Cardinality(db["member_terms"]) < MaxRows
    /\ \E k \in Keys : Call(w, k)
    /\ UNCHANGED driverVars

----------------------------------------------------------------------------
(* Closed scans: batch_scraper.py, with ScrapingStats of scraper_utils.py *)

\* most entries of a list of specific keys, most parts of a range string
MaxList == 2
\* times the same scan is run
MaxRuns == 2

\* BatchScraper.bill_types (the first two of its seven)
bill_types == <<"SB", "HB">>

SeqsUpTo(S, n) == UNION {[1..m -> S] : m \in 0..n}

\* the sequence of the elements of S in increasing order: sorted(set(...))
SortedSeq(S) ==
    CHOOSE q \in [1..Cardinality(S) -> S] : \A i, j \in 1..Cardinality(S) : i < j => q[i] < q[j]

\* a range string such as "1,5,10-20": its comma-separated parts, a part n
\* being [lo |-> n, hi |-> n] and a part a-b being [lo |-> a, hi |-> b]
RangeStrings(S) == UNION {[1..m -> [lo : S, hi : S]] : m \in 1..MaxList}

\* the first number of every part, in the order written, repeats kept
parse_range_repeats(parts) == [i \in 1..Len(parts) |-> parts[i].lo]

\* parse_range: every number of every part, sorted, each once
parse_range(parts) == SortedSeq(UNION {parts[i].lo .. parts[i].hi : i \in 1..Len(parts)})

\* a year string "2025" or "2024-2025"
YearStrings(S) == {y \in [lo : S, hi : S] : y.lo <= y.hi}

\* parse_year_range: list(range(start, end + 1))
parse_year_range(y) == [i \in 1..(y.hi - y.lo + 1) |-> y.lo + i - 1]

\* --max-workers is not validated: zero is accepted
MaxWorkerChoicesZero == {0}

\* --max-workers, validated by main to lie in 1..8; one and eight
MaxWorkerChoices == {1, 8}

\* the closed scans that can be asked for
ScanRequests ==
    [op : {"specific_bills"}, list : SeqsUpTo(BillKeys, MaxList), max_workers : MaxWorkerChoices]
    \cup [op : {"specific_members"}, list : SeqsUpTo(MemberKeys, MaxList),
          max_workers : MaxWorkerChoices]
    \cup [op : {"members_by_range"}, member_ids : RangeStrings(MemberIds),
          years : YearStrings(Years), max_workers : MaxWorkerChoices]
    \cup [op : {"bills_by_range"}, bill_numbers : RangeStrings(BillNumbers),
          types : SeqsUpTo(BillTypes, MaxList), years : YearStrings(BillYears),
          max_workers : MaxWorkerChoices]

\* the nested loops of scrape_members_by_range: for year, for member_id
MemberCross(ids, years) ==
    [i \in 1..(Len(years) * Len(ids)) |->
        [member_id |-> ids[((i - 1) % Len(ids)) + 1], year |-> years[((i - 1) \div Len(ids)) + 1]]]

\* the nested loops of scrape_bills_by_range: for year, for bill_type, for bill_number
BillCross(numbers, types, years) ==
    [i \in 1..(Len(years) * Len(types) * Len(numbers)) |->
        [bill_type |-> types[(((i - 1) \div Len(numbers)) % Len(types)) + 1],
         bill_number |-> numbers[((i - 1) % Len(numbers)) + 1],
         year |-> years[((i - 1) \div (Len(numbers) * Len(types))) + 1]]]

\* the keys a closed scan iterates over, in the order of its loops
KeyList(a) ==
    IF a.op \in {"specific_bills", "specific_members"} THEN a.list
    ELSE IF a.op = "members_by_range"
    THEN MemberCross(parse_range(a.member_ids), parse_year_range(a.years))
    ELSE IF a.op = "bills_by_range"
    THEN BillCross(parse_range(a.bill_numbers),
                   IF a.types = <<>> THEN bill_types ELSE a.types,
                   parse_year_range(a.years))
    ELSE <<>>

\* ScrapingStats.reset
reset == [total_attempted |-> 0, total_successful |-> 0, total_failed |-> 0, total_skipped |-> 0]

\* ScrapingStats.record_attempt
record_attempt(st) == [st EXCEPT !.total_attempted = @ + 1]

\* ScrapingStats.record_success
record_success(st) == [st EXCEPT !.total_successful = @ + 1]

\* the failure is not counted
record_nothing(st) == st

\* ScrapingStats.record_failure
record_failure(st) == [st EXCEPT !.total_failed = @ + 1]

\* the scan loop ends as soon as a key has failed
ScanDoneOnMiss(n, k) == n >= k \/ stats.total_failed >= 1

\* the for loop of a closed scan is over when it has gone through all k keys
ScanDone(n, k) == n >= k

BatchInit ==
    /\ scanArgs = [op |-> "none"]
    /\ scanPc = "idle"
    /\ processed = 0
    /\ stats = reset
    /\ runs = 0
    /\ dispatched = <<>>
    /\ dbAfterFirst = EmptyDb
    /\ success_count = 0

\* a closed scan is started: the first time with any arguments, afterwards
\* with the same arguments again
ScanStart ==
    /\ scanPc \in {"idle", "finished"}
    /\ runs < MaxRuns
    /\ IF runs = 0 THEN \E a \in ScanRequests : scanArgs' = a ELSE UNCHANGED scanArgs
    /\ stats' = reset
    /\ processed' = 0
    /\ dispatched' = <<>>
    /\ scanPc' = "loop"
    /\ UNCHANGED <<runs, dbAfterFirst, success_count, storeVars, scanVars, fetchVars, statsVars>>

\* one iteration of the scan loop up to the call of the scraper
ScanDispatch ==
    /\ scanPc = "loop"
    /\ ~ScanDone(processed, Len(KeyList(scanArgs)))
    /\ stats' = record_attempt(stats)
    /\ Call(1, KeyList(scanArgs)[processed + 1])
    /\ dispatched' = Append(dispatched, KeyList(scanArgs)[processed + 1])
    /\ scanPc' = "call"
    /\ UNCHANGED <<scanArgs, processed, runs, dbAfterFirst, success_count, scanVars, fetchVars,
                   statsVars>>

\* the rest of the iteration: the returned value or the exception is counted
ScanCollect ==
    /\ scanPc = "call"
    /\ pc[1] = "done"
    /\ stats' = IF ret[1] = "True" THEN record_success(stats) ELSE record_failure(stats)
    /\ TakeResult(1)
    /\ processed' = processed + 1
    /\ scanPc' = "loop"
    /\ UNCHANGED <<scanArgs, runs, dispatched, dbAfterFirst, success_count, scanVars, fetchVars,
                   statsVars>>

\* the loop is over: print_summary
ScanFinish ==
    /\ scanPc = "loop"
    /\ ScanDone(processed, Len(KeyList(scanArgs)))
    /\ scanPc' = "finished"
    /\ runs' = runs + 1
    /\ dbAfterFirst' = IF runs = 0 THEN db ELSE dbAfterFirst
    /\ UNCHANGED <<scanArgs, processed, stats, dispatched, success_count, storeVars, scanVars,
                   fetchVars, statsVars>>

\* a scraper call made by the scan, against a source that does not change
ScanPipeline == Pipeline(1, TRUE)

----------------------------------------------------------------------------
(* Scans of one year: BatchScraper.scrape_members_for_year, which runs      *)
(* MemberScraper.scrape_member_range                                        *)

\* the scans of the members of one year that can be asked for
YearRequests ==
    [op : {"members_for_year"}, year : Years, start_id : MemberIds, end_id : MemberIds,
     max_workers : MaxWorkerChoices]

\* for member_id in range(start_id, end_id + 1)
YearKeys(a) ==
    [i \in 1..(a.end_id - a.start_id + 1) |-> [member_id |-> a.start_id + i - 1, year |-> a.year]]

\* ScrapingStats.get_summary: 'success_rate', in whole percent
success_rate(st) == (st.total_successful * 100) \div Max({st.total_attempted, 1})

\* scrape_members_for_year is called: self.stats.reset(), then the call of
\* scrape_member_range, which sets success_count = 0
YearStart ==
    /\ scanPc \in {"idle", "finished"}
    /\ runs < MaxRuns
    /\ IF runs = 0 THEN \E a \in YearRequests : scanArgs' = a ELSE UNCHANGED scanArgs
    /\ stats' = reset
    /\ success_count' = 0
    /\ processed' = 0
    /\ dispatched' = <<>>
    /\ scanPc' = "loop"
    /\ UNCHANGED <<runs, dbAfterFirst, storeVars, scanVars, fetchVars, statsVars>>

\* scrape_member_range: one iteration up to the call of scrape_member
YearDispatch ==
    /\ scanPc = "loop"
    /\ processed < Len(YearKeys(scanArgs))
    /\ Call(1, YearKeys(scanArgs)[processed + 1])
    /\ dispatched' = Append(dispatched, YearKeys(scanArgs)[processed + 1])
    /\ scanPc' = "call"
    /\ UNCHANGED <<scanArgs, processed, stats, runs, dbAfterFirst, success_count, scanVars,
                   fetchVars, statsVars>>

\* scrape_member_range: if self.scrape_member(...): success_count += 1
YearCollect ==
    /\ scanPc = "call"
    /\ pc[1] = "done"
    /\ success_count' = IF ret[1] = "True" THEN success_count + 1 ELSE success_count
    /\ TakeResult(1)
    /\ processed' = processed + 1
    /\ scanPc' = "loop"
    /\ UNCHANGED <<scanArgs, stats, runs, dispatched, dbAfterFirst, scanVars, fetchVars,
                   statsVars>>

\* the steps of the call of scrape_member, against a source that does not
\* change
YearPipeline ==
    \/ FetchStep(1, TRUE)
    \/ CheckTerm(1)
    \/ get_or_create_member(1)
    \/ InsertTerm(1)
    \/ AddCommittees(1)
    \/ Commit(1)

\* scrape_member_range returns success_count; scrape_members_for_year sets
\* self.stats.total_successful = success_count and prints the summary
YearFinish ==
    /\ scanPc = "loop"
    /\ processed >= Len(YearKeys(scanArgs))
    /\ stats' = [stats EXCEPT !.total_successful = success_count]
    /\ scanPc' = "finished"
    /\ runs' = runs + 1
    /\ dbAfterFirst' = IF runs = 0 THEN db ELSE dbAfterFirst
    /\ UNCHANGED <<scanArgs, processed, dispatched, success_count, storeVars, scanVars,
                   fetchVars, statsVars>>

----------------------------------------------------------------------------
(* ScrapingStats shared by threads: each record_ method is self.x += 1, a   *)
(* read of the attribute and then a write, with no lock around them         *)

\* calls of the record_ methods between two resets
MaxCalls == 3

\* the counters of a ScrapingStats
StatFields == {"total_attempted", "total_successful", "total_failed", "total_skipped"}

NoInc == [none |-> TRUE]

\* ScrapingStats.__init__: self.reset()
StatsInit ==
    /\ counters = reset
    /\ inc = [w \in Workers |-> NoInc]
    /\ calls = [f \in StatFields |-> 0]

\* ScrapingStats.reset, called when no record_ call is in progress
ResetCounters ==
    /\ \A w \in Workers : inc[w] = NoInc
    /\ \E f \in StatFields : calls[f] > 0
    /\ counters' = reset
    /\ calls' = [f \in StatFields |-> 0]
    /\ UNCHANGED <<inc, storeVars, batchVars, scanVars, fetchVars>>

\* a thread calls record_attempt, record_success, record_failure or
\* record_skip: the first half of self.x += 1 reads the attribute
ReadCounter(w) ==
    /\ inc[w] = NoInc
    /\ calls["total_attempted"] + calls["total_successful"] + calls["total_failed"]
         + calls["total_skipped"] < MaxCalls
    /\ \E f \in StatFields :
          /\ inc' = [inc EXCEPT ![w] = [field |-> f, value |-> counters[f]]]
          /\ calls' = [calls EXCEPT ![f] = @ + 1]
    /\ UNCHANGED <<counters, storeVars, batchVars, scanVars, fetchVars>>

\* the second half of self.x += 1 writes the value read plus one
WriteCounter(w) ==
    /\ inc[w] # NoInc
    /\ counters' = [counters EXCEPT ![inc[w].field] = inc[w].value + 1]
    /\ inc' = [inc EXCEPT ![w] = NoInc]
    /\ UNCHANGED <<calls, storeVars, batchVars, scanVars, fetchVars>>

----------------------------------------------------------------------------
(* Open-ended scans: HawaiiLegislatureScraper of backend/src/scraper.py *)

\* the safety limit of scrape_bills_for_year (10000 in the source)
SafetyLimit == 6
\* the last member id of scrape_members_for_year (1500 in the source)
MemberLimit == 3

\* what one attempt of the scan finds
ScanOutcomes == {"Found", "Absent", "Exhausted", "Invalid"}

\* the placeholder scrape_bill: fetch_page, then the search for the marker
\* "measure_indiv_Archives" in the text; nothing is written to the store
BackendOutcome(sv, net) ==
    LET f == FetchPage(sv, net) IN
    IF f.outcome # "Found" THEN f.outcome
    ELSE IF sv.kind = "page" THEN "Found" ELSE "Invalid"

\* only a 404 makes the call unsuccessful
SuccessUnlessAbsent(outcome) == outcome # "Absent"

\* the value scrape_bill returns: True for a page with the marker, False for
\* a 404, for exhausted retries and for a page without the marker alike
Success(outcome) == outcome = "Found"

\* the loop goes on until the third consecutive miss
ContinueScanThree(misses) == misses < 3

\* while consecutive_404s < 2
ContinueScan(misses) == misses < 2

\* the break comes one number late
SafetyBreakLate(n) == n > SafetyLimit + 1

\* if bill_number > 10000: break
SafetyBreak(n) == n > SafetyLimit

\* range(1, 1501)
member_range == 1..MemberLimit

\* the placeholder scrape_member on a valid page: the member term is saved
\* unless it exists; an exception is rolled back and the call returns True
SaveMemberTerm(d, k, raised) ==
    IF member_term_exists(d["member_terms"], k) \/ raised THEN d
    ELSE [d EXCEPT
            !["members"] = IF ExistingMember(d["members"], k.member_id) THEN @
                           ELSE @ \cup {MemberRow(FreshId("members"), k.member_id)},
            !["member_terms"] = @ \cup {MemberTermRow(FreshId("member_terms"), k)}]

\* the value the placeholder scrape_member returns: True for a valid page,
\* whether its store transaction was committed or rolled back
MemberReturn(outcome, raised) == outcome = "Found"

\* the number after n is n - 1
NextNumberDown(n) == n - 1

\* a number is left out: the number after n is n + 2
NextNumberSkips(n) == n + 2

\* bill_number += 1
NextNumber(n) == n + 1

\* the miss counter is carried over from the bill type before
DimensionStartCarried == [consecutive_404s |-> consecutive_404s, bill_number |-> 1]

\* consecutive_404s = 0; bill_number = 1 at the top of the for loop body
DimensionStart == [consecutive_404s |-> 0, bill_number |-> 1]

\* bills of one type and year in the store
BillsOf(d, t, y) == {b \in d["bills"] : b.bill_type = t /\ b.year = y}

\* what is known of a dimension once its scan is over
StopRecord(reason) ==
    [bill_type |-> bill_types[type_index], reason |-> reason, attempts |-> Len(log),
     found |-> Cardinality({i \in 1..Len(log) : log[i] = "Found"})]

ScanInit ==
    /\ scanning = "none"
    /\ scan_year = 0
    /\ type_index = 0
    /\ bill_number = 0
    /\ consecutive_404s = 0
    /\ member_id = 0
    /\ log = <<>>
    /\ last_key = 0
    /\ success = FALSE
    /\ stops = <<>>

\* self.start_year and self.end_year (2008 and the current year in the source)
start_year == CHOOSE y \in Years : \A z \in Years : y <= z

end_year == Max(Years)

\* run_full_scrape is called: first the bills of every year
run_full_scrape ==
    /\ scanning = "none"
    /\ scanning' = "bills"
    /\ scan_year' = start_year
    /\ UNCHANGED <<type_index, bill_number, consecutive_404s, member_id, log, last_key, success,
                   stops, storeVars, batchVars, fetchVars, statsVars>>

\* run_full_scrape calls scrape_bills_for_year(year)
scrape_bills_for_year ==
    /\ scanning = "bills"
    /\ scanning' = "for"
    /\ type_index' = 0
    /\ stops' = <<>>
    /\ log' = <<>>
    /\ last_key' = 0
    /\ UNCHANGED <<scan_year, bill_number, consecutive_404s, member_id, success,
                   storeVars, batchVars, fetchVars, statsVars>>

\* for bill_type in self.bill_types: the next type starts at number 1, or
\* the scan of the year returns to run_full_scrape, which goes on with the
\* next year, or with the members of the first year
ForBillType ==
    /\ scanning = "for"
    /\ IF type_index < Len(bill_types)
       THEN /\ type_index' = type_index + 1
            /\ consecutive_404s' = DimensionStart.consecutive_404s
            /\ bill_number' = DimensionStart.bill_number
            /\ log' = <<>>
            /\ scanning' = "while"
            /\ UNCHANGED scan_year
       ELSE /\ scanning' = IF scan_year < end_year THEN "bills" ELSE "members_call"
            /\ scan_year' = IF scan_year < end_year THEN scan_year + 1 ELSE start_year
            /\ UNCHANGED <<type_index, consecutive_404s, bill_number, log>>
    /\ UNCHANGED <<member_id, last_key, success, stops, storeVars, batchVars, fetchVars, statsVars>>

\* one iteration of the while loop: the attempt, the miss counter, the next
\* number, the safety break
WhileAttempt ==
    /\ scanning = "while"
    /\ ContinueScan(consecutive_404s)
    /\ \E sv \in {Absent, NoAnchor} \cup BillPages, net \in NetSeqs :
         LET outcome == BackendOutcome(sv, net) IN
         /\ log' = Append(log, outcome)
         /\ last_key' = bill_number
         /\ success' = Success(outcome)
         /\ consecutive_404s' = IF success' THEN 0 ELSE consecutive_404s + 1
         /\ bill_number' = NextNumber(bill_number)
         /\ IF SafetyBreak(bill_number')
            THEN /\ scanning' = "for"
                 /\ stops' = Append(stops, [StopRecord("SafetyCeiling") EXCEPT
                                               !.attempts = Len(log) + 1,
                                               !.found = @ + (IF success' THEN 1 ELSE 0)])
            ELSE UNCHANGED <<scanning, stops>>
    /\ UNCHANGED <<scan_year, type_index, member_id, storeVars, batchVars, fetchVars, statsVars>>

\* the while condition fails and the loop is not left
WhileExitStuck ==
    /\ scanning = "while"
    /\ ~ContinueScan(consecutive_404s)
    /\ UNCHANGED <<scanVars, storeVars, batchVars, fetchVars, statsVars>>

\* the while condition fails: the scan of this type is over
WhileExit ==
    /\ scanning = "while"
    /\ ~ContinueScan(consecutive_404s)
    /\ scanning' = "for"
    /\ stops' = Append(stops, StopRecord("MissLimit"))
    /\ UNCHANGED <<scan_year, type_index, bill_number, consecutive_404s, member_id, log,
                   last_key, success, storeVars, batchVars, fetchVars, statsVars>>

\* run_full_scrape calls scrape_members_for_year(year)
scrape_members_for_year ==
    /\ scanning = "members_call"
    /\ scanning' = "members"
    /\ member_id' = 1
    /\ stops' = <<>>
    /\ log' = <<>>
    /\ last_key' = 0
    /\ UNCHANGED <<scan_year, type_index, bill_number, consecutive_404s, success,
                   storeVars, batchVars, fetchVars, statsVars>>

\* one iteration of for member_id in range(1, 1501), or the end of the loop:
\* run_full_scrape goes on with the next year, or is done
MemberAttempt ==
    /\ scanning = "members"
    /\ IF member_id \in member_range
       THEN /\ \E sv \in {Absent, NoAnchor} \cup MemberPages, net \in NetSeqs, raised \in BOOLEAN :
                 /\ db' = IF BackendOutcome(sv, net) = "Found"
                          THEN SaveMemberTerm(db, [member_id |-> member_id, year |-> scan_year],
                                              raised)
                          ELSE db
                 /\ success' = MemberReturn(BackendOutcome(sv, net), raised)
            /\ last_key' = member_id
            /\ member_id' = member_id + 1
            /\ UNCHANGED <<scanning, scan_year>>
       ELSE /\ scanning' = IF scan_year < end_year THEN "members_call" ELSE "done"
            /\ scan_year' = IF scan_year < end_year THEN scan_year + 1 ELSE scan_year
            /\ UNCHANGED <<db, last_key, success, member_id>>
    /\ UNCHANGED <<type_index, bill_number, consecutive_404s, log, stops,
                   site, pending, pc, key, page, ret, result, batchVars, fetchVars, statsVars>>


----------------------------------------------------------------------------
(* One fetch client and its requests: fetch_bill_page, fetch_member_page,  *)
(* fetch_page, and the sleep of the caller between two calls               *)

\* fetch calls of one client
MaxFetches == 2

\* BatchScraper.delay, 0.5 s; durations on the wire are in half seconds
delay == 1

Clients == {"bill", "member", "backend"}

\* what the request to the root resource does
BootOutcomes == {"ok", "exception"}

GetEvent == [ev |-> "get", n |-> 0]

RootEvent == [ev |-> "root", n |-> 0]

\* time.sleep(sec)
SleepEvent(sec) == [ev |-> "sleep", n |-> 2 * sec]

\* the value a fetch returns: the response on a 200, None after a 404 and
\* after the last failed attempt alike
Returned(f) == IF f.outcome = "Found" THEN "response" ELSE "None"

\* requests and sleeps of the retry loop in order: the k-th sleep follows
\* the k-th request
LoopEvents(f) ==
    [p \in 1..(f.requests + Len(f.sleeps)) |->
        IF p <= 2 * Len(f.sleeps)
        THEN (IF p % 2 = 1 THEN GetEvent ELSE SleepEvent(f.sleeps[p \div 2]))
        ELSE GetEvent]

\* fetch_bill_page visits the main page first and sleeps a second, unless
\* the visit raises; the other two clients do not
BootEvents(c, boot) ==
    IF c # "bill" THEN <<>>
    ELSE IF boot = "ok" THEN <<RootEvent, SleepEvent(1)>>
    ELSE <<RootEvent>>

NoFetch == [sv |-> Unknown, resps |-> <<>>, outcome |-> "None", requests |-> 0,
            sleeps |-> <<>>, events |-> <<>>, ret |-> "None"]

FetchInit ==
    /\ client = "none"
    /\ fpc = "ready"
    /\ fetches = 0
    /\ bootstraps = 0
    /\ fetched = NoFetch
    /\ wire = <<>>

\* a scraper is constructed: its cloudscraper session is the fetch client
NewClient ==
    /\ client = "none"
    /\ \E c \in Clients : client' = c
    /\ UNCHANGED <<fpc, fetches, bootstraps, fetched, wire, storeVars, batchVars, scanVars, statsVars>>

\* one call of the client's fetch function, from its first request to its return
Fetch ==
    /\ client # "none"
    /\ fpc = "ready"
    /\ fetches < MaxFetches
    /\ \E sv \in {Absent, NoAnchor} \cup BillPages, net \in NetSeqs, boot \in BootOutcomes :
         LET f == FetchPage(sv, net)
             events == BootEvents(client, boot) \o LoopEvents(f) IN
         /\ fetched' = [sv |-> sv,
                        resps |-> [i \in 1..max_retries |-> Response(sv, net[i])],
                        outcome |-> f.outcome, requests |-> f.requests, sleeps |-> f.sleeps,
                        events |-> events, ret |-> Returned(f)]
         /\ wire' = wire \o events
    /\ bootstraps' = bootstraps + Len(BootEvents(client, "exception"))
    /\ fetches' = fetches + 1
    /\ fpc' = "returned"
    /\ UNCHANGED <<client, storeVars, batchVars, scanVars, statsVars>>

\* time.sleep(self.delay) of the scan loop before its next iteration
Pause ==
    /\ fpc = "returned"
    /\ fpc' = "ready"
    /\ wire' = Append(wire, [ev |-> "sleep", n |-> delay])
    /\ UNCHANGED <<client, fetches, bootstraps, fetched, storeVars, batchVars, scanVars, statsVars>>


----------------------------------------------------------------------------
(* Specifications *)

vars == <<storeVars, batchVars, scanVars, fetchVars, statsVars>>

Init == StoreInit /\ BatchInit /\ ScanInit /\ FetchInit /\ StatsInit

\* scraper calls one after the other
Next == \E w \in Workers : CallSeq(w) \/ Step(w)

Spec == Init /\ [][Next]_vars

\* scraper calls of several pipelines interleaved
NextConc == \E w \in Workers : CallConc(w) \/ Step(w)

SpecConc == Init /\ [][NextConc]_vars

\* a closed scan of BatchScraper, run and run again
NextBatch == ScanStart \/ ScanDispatch \/ ScanPipeline \/ ScanCollect \/ ScanFinish

SpecBatch == Init /\ [][NextBatch]_vars

\* the full scrape of HawaiiLegislatureScraper
NextScan ==
    \/ run_full_scrape
    \/ scrape_bills_for_year
    \/ ForBillType
    \/ WhileAttempt
    \/ WhileExit
    \/ scrape_members_for_year
    \/ MemberAttempt

SpecScan == Init /\ [][NextScan]_vars

\* the full scrape runs on: the one process that executes it is not stopped
\* from outside, so that a step that can be taken is taken
SpecScanLive == SpecScan /\ WF_vars(NextScan)

\* the scan of the members of one year, run twice
NextYear == YearStart \/ YearDispatch \/ YearPipeline \/ YearCollect \/ YearFinish

SpecYear == Init /\ [][NextYear]_vars

\* threads that share one ScrapingStats
NextStats == ResetCounters \/ \E w \in Workers : ReadCounter(w) \/ WriteCounter(w)

SpecStats == Init /\ [][NextStats]_vars

\* one fetch client, its calls one after the other
NextFetch == NewClient \/ Fetch \/ Pause

SpecFetch == Init /\ [][NextFetch]_vars


----------------------------------------------------------------------------
(* Properties of ingestion *)

\* rows of the store carrying natural key k
RowsOfKey(d, k) ==
    IF k \in BillKeys
    THEN {b \in d["bills"] : b.bill_type = k.bill_type /\ b.bill_number = k.bill_number
                             /\ b.year = k.year}
    ELSE {t \in d["member_terms"] : t.member_id = k.member_id /\ t.year = k.year}

InCall(w) == pc[w] \notin {"idle", "done"}

\* C1: a call that reaches the store for a key that is already stored changes
\* no table, from its first step to its return, and returns True through the
\* "already exists" path
C1_IngestExistingIsNoOp ==
    [][\A w \in Workers :
          (InCall(w) /\ RowsOfKey(db, key[w]) # {})
          => /\ db' = db
             /\ (pc[w] = "check" /\ pc'[w] \notin {"check", "idle"})
                => (pc'[w] = "done" /\ ret'[w] = "True" /\ result'[w] = "AlreadyExists")]_vars

C1_Witness ==
    \E w \in Workers :
        /\ pc[w] = "done" /\ result[w] = "AlreadyExists" /\ key[w] \in BillKeys
        /\ \E b \in RowsOfKey(db, key[w]) : \E c \in db["status_updates"] : c.bill_id = b.id

\* C2: one call after the other, the store never holds two bills with the
\* same (bill_type, bill_number, year), two member terms with the same
\* (member_id, year) or two members with the same member_id
C2_NaturalKeysUnique ==
    /\ \A k \in Keys : Cardinality(RowsOfKey(db, k)) <= 1
    /\ \A a, b \in db["members"] : a.member_id = b.member_id => a = b

C2_Witness ==
    /\ Cardinality(db["bills"]) = 2
    /\ Cardinality(db["member_terms"]) = 1
    /\ Cardinality(db["members"]) = 1
    /\ \E w \in Workers : pc[w] = "done" /\ result[w] = "StoreError" /\ key[w] \in MemberKeys

\* C3: with pipelines interleaved, a natural key is stored at most once and
\* two pipelines never both insert the same key
C3_ConcurrentSingleRecord ==
    /\ \A k \in Keys : Cardinality(RowsOfKey(db, k)) <= 1
    /\ \A v, w \in Workers :
          (v # w /\ pc[v] = "done" /\ pc[w] = "done" /\ key[v] = key[w])
          => ~(result[v] = "Inserted" /\ result[w] = "Inserted")

\* rows that a step adds to table t
Added(t) == db'[t] \ db[t]

\* the step commits exactly the aggregate that pipeline w parsed: the parent
\* row of its key and every entry of every child collection of its page
CommitsAggregate(w) ==
    /\ \A t \in Tables : db[t] \subseteq db'[t]
    /\ IF key[w] \in BillKeys
       THEN /\ \E b \in Added("bills") :
                 /\ Added("bills") = {b}
                 /\ RowsOfKey(db', key[w]) = RowsOfKey(db, key[w]) \cup {b}
                 /\ \A t \in {"status_updates", "versions", "committee_reports"} :
                       \A c \in Added(t) : c.bill_id = b.id
            /\ {c.n : c \in Added("status_updates")} = 1..page[w].status
            /\ {c.n : c \in Added("versions")} = 1..page[w].versions
            /\ {c.n : c \in Added("committee_reports")} = 1..page[w].reports
            /\ \A t \in {"members", "member_terms", "member_committees"} : Added(t) = {}
       ELSE /\ \E m \in Added("member_terms") :
                 /\ Added("member_terms") = {m}
                 /\ RowsOfKey(db', key[w]) = RowsOfKey(db, key[w]) \cup {m}
                 /\ \A c \in Added("member_committees") : c.member_term_id = m.id
            /\ {c.n : c \in Added("member_committees")} = 1..page[w].committees
            /\ \A r \in Added("members") : r.member_id = key[w].member_id
            /\ \A t \in {"bills", "status_updates", "versions", "committee_reports"} :
                  Added(t) = {}

\* C4: the committed store changes only by the commit of one whole aggregate,
\* by a call that then returns True; a call that ends in any other way
\* (a failed flush, add or commit) returns False and leaves the store as
\* it was, and so does a process killed at any point
C4_InsertAllOrNothing ==
    [][/\ db' # db =>
            \E w \in Workers :
                /\ pc[w] = "commit" /\ pc'[w] = "done" /\ ret'[w] = "True"
                /\ CommitsAggregate(w)
       /\ \A w \in Workers :
            (pc[w] \in {"member", "insert", "children", "commit"} /\ pc'[w] = "done"
             /\ RowsOfKey(db', key[w]) = RowsOfKey(db, key[w]))
            => (db' = db /\ ret'[w] = "False")]_vars

C4_Witness ==
    \E w \in Workers :
        /\ pc[w] = "done" /\ ret[w] = "False" /\ result[w] = "StoreError"
        /\ key[w] \in BillKeys /\ page[w].status > 0
        /\ RowsOfKey(db, key[w]) = {}
        /\ db["bills"] # {}

\* C5: every child row refers to a stored parent row: status updates,
\* versions and committee reports to a bill, committee memberships to a
\* member term, member terms to a member
C5_ReferentialIntegrity ==
    /\ \A t \in {"status_updates", "versions", "committee_reports"} :
          \A c \in db[t] : \E b \in db["bills"] : b.id = c.bill_id
    /\ \A c \in db["member_committees"] : \E m \in db["member_terms"] : m.id = c.member_term_id
    /\ \A m \in db["member_terms"] : \E r \in db["members"] : r.member_id = m.member_id

C5_Witness ==
    /\ db["status_updates"] # {} /\ db["versions"] # {} /\ db["committee_reports"] # {}
    /\ db["member_committees"] # {}
    /\ Cardinality(db["member_terms"]) = 2



----------------------------------------------------------------------------
(* Properties of closed scans *)

\* the keys of the scan that was asked for
ScanKeys == {KeyList(scanArgs)[i] : i \in 1..Len(KeyList(scanArgs))}

\* C6, as stated: after the second run of the same scan against an unchanged
\* source the store is exactly the store the first run left
C6_RerunSameStore == (scanPc = "finished" /\ runs = 2) => db = dbAfterFirst

\* C6, amended: from the end of the first run on, no row the first run stored
\* is changed, removed or duplicated, every row added later belongs to a key
\* the first run did not store, and when the first run stored every key for
\* which the source serves a valid page the store stays exactly as it was
C6_RerunAddsOnlyMissing ==
    runs >= 1 =>
        /\ \A t \in Tables : dbAfterFirst[t] \subseteq db[t]
        /\ \A k \in Keys : Cardinality(RowsOfKey(db, k)) <= 1
        /\ \A k \in Keys :
              RowsOfKey(dbAfterFirst, k) # {} => RowsOfKey(db, k) = RowsOfKey(dbAfterFirst, k)
        /\ \A t \in {"status_updates", "versions", "committee_reports"} :
              \A c \in db[t] \ dbAfterFirst[t] :
                 \A b \in dbAfterFirst["bills"] : b.id # c.bill_id
        /\ \A c \in db["member_committees"] \ dbAfterFirst["member_committees"] :
              \A m \in dbAfterFirst["member_terms"] : m.id # c.member_term_id
        /\ \A r \in db["members"] \ dbAfterFirst["members"] :
              \A q \in dbAfterFirst["members"] : q.member_id # r.member_id
        /\ (\A k \in ScanKeys : site[k].kind = "page" => RowsOfKey(dbAfterFirst, k) # {})
              => db = dbAfterFirst

C6_Witness ==
    /\ scanPc = "finished" /\ runs = 2
    /\ dbAfterFirst["bills"] # {} /\ dbAfterFirst["status_updates"] # {}
    /\ db["bills"] # dbAfterFirst["bills"]
    /\ stats.total_successful = 2

\* the size of the closed key list, from the arguments of the scan
ClosedSize(a) ==
    LET count(parts) == Cardinality(UNION {parts[i].lo .. parts[i].hi : i \in 1..Len(parts)})
        span(y) == y.hi - y.lo + 1 IN
    IF a.op \in {"specific_bills", "specific_members"} THEN Len(a.list)
    ELSE IF a.op = "members_by_range" THEN count(a.member_ids) * span(a.years)
    ELSE IF a.op = "bills_by_range"
    THEN count(a.bill_numbers) * (IF a.types = <<>> THEN Len(bill_types) ELSE Len(a.types))
         * span(a.years)
    ELSE 0

\* C7: a closed scan over K keys calls the scraper for each entry of its key
\* list in turn and counts one attempt per call; it finishes only when it has
\* called the scraper K times and counted K attempts, each of them counted as
\* a success or as a failure, whatever was returned or raised and whatever
\* max_workers is
C7_ClosedScanAttemptsAll ==
    /\ stats.total_attempted = Len(dispatched)
    /\ Len(dispatched) <= ClosedSize(scanArgs)
    /\ dispatched = SubSeq(KeyList(scanArgs), 1, Len(dispatched))
    /\ scanPc = "finished" =>
          /\ stats.total_attempted = ClosedSize(scanArgs)
          /\ stats.total_successful + stats.total_failed = ClosedSize(scanArgs)

C7_Witness ==
    /\ scanPc = "finished"
    /\ scanArgs.op = "bills_by_range" /\ scanArgs.max_workers = 8
    /\ stats.total_attempted = 2 /\ stats.total_failed = 2
    /\ \E k \in ScanKeys : site[k].kind = "absent"


----------------------------------------------------------------------------
(* Properties of open-ended scans *)

\* the dimension of the current bill type has just stopped
JustStopped == scanning = "for" /\ type_index >= 1 /\ Len(stops) = type_index

\* C8: two consecutive Absent outcomes at positions p and p+1 of a dimension
\* are its last two attempts, and a dimension that has stopped keeps its stop
\* record and is not attempted again for as long as the scan of the year lasts
C8_TwoMissesStop ==
    /\ [](\A p \in 1..(Len(log) - 1) :
             (log[p] = "Absent" /\ log[p + 1] = "Absent") => Len(log) = p + 1)
    /\ [][/\ (stops # <<>> /\ stops' # <<>>) => SubSeq(stops', 1, Len(stops)) = stops
          /\ (log' # log /\ log' # <<>>) =>
                \A i \in 1..Len(stops) : stops[i].bill_type # bill_types[type_index']]_vars

C8_Witness ==
    /\ JustStopped
    /\ Len(log) = 3
    /\ log[1] = "Found" /\ log[2] = "Absent" /\ log[3] = "Absent"
    /\ stops[Len(stops)].reason = "MissLimit" /\ stops[Len(stops)].attempts = 3

\* C9: a dimension whose first n keys are Found and whose next two are Absent
\* stops after n + 2 attempts with reason MissLimit, and the store then holds
\* n bills of its type and year
C9_OpenScanCounts ==
    (/\ JustStopped
     /\ Len(log) >= 2 /\ Len(log) < SafetyLimit
     /\ \A i \in 1..Len(log) : log[i] = (IF i <= Len(log) - 2 THEN "Found" ELSE "Absent"))
    => /\ stops[Len(stops)].attempts = Len(log)
       /\ stops[Len(stops)].reason = "MissLimit"
       /\ Cardinality(BillsOf(db, bill_types[type_index], scan_year)) = Len(log) - 2

\* C10: no bill number above the safety limit and no member id above the last
\* id of the range is ever attempted; a dimension in which every key up to
\* the limit is Found stops there, for the reason SafetyCeiling
C10_SafetyCeiling ==
    /\ scanning \in {"for", "while"} => (last_key <= SafetyLimit /\ Len(log) <= SafetyLimit)
    /\ scanning = "members" => (last_key <= MemberLimit /\ member_id <= MemberLimit + 1)
    /\ (JustStopped /\ log # <<>> /\ \A i \in 1..Len(log) : log[i] = "Found")
          => /\ stops[Len(stops)].reason = "SafetyCeiling"
             /\ stops[Len(stops)].attempts = SafetyLimit
             /\ last_key = SafetyLimit

C10_Witness ==
    /\ JustStopped
    /\ stops[Len(stops)].reason = "SafetyCeiling"
    /\ stops[Len(stops)].found = SafetyLimit
    /\ last_key = SafetyLimit

\* C11: in an open-ended scan every Found outcome resets the miss counter,
\* every Absent outcome adds one to it, and an attempt that ends in any
\* other way (retries exhausted) leaves the counter as it was
C11_OnlyAbsentCounts ==
    [][(log' # log /\ log' # <<>>) =>
          consecutive_404s' = (IF log'[Len(log')] = "Found" THEN 0
                               ELSE IF log'[Len(log')] = "Absent" THEN consecutive_404s + 1
                               ELSE consecutive_404s)]_vars

\* C12: a key whose fetch exhausts its retries adds one to the miss counter
\* as a 404 does, so that two consecutive unreachable keys are the last two
\* attempts of their dimension, which stops on the miss limit although none
\* of the two outcomes was Absent
C12_ExhaustedCountsAsMiss ==
    /\ [](\A p \in 1..(Len(log) - 1) :
             (log[p] = "Exhausted" /\ log[p + 1] = "Exhausted")
             => /\ Len(log) = p + 1
                /\ scanning = "while" => consecutive_404s >= 2
                /\ (JustStopped /\ Len(log) < SafetyLimit)
                      => stops[Len(stops)].reason = "MissLimit")
    /\ [][(log' # log /\ log' # <<>> /\ log'[Len(log')] = "Exhausted")
             => consecutive_404s' = consecutive_404s + 1]_vars

C12_Witness ==
    /\ JustStopped
    /\ log = <<"Found", "Exhausted", "Exhausted">>
    /\ stops[Len(stops)].reason = "MissLimit" /\ stops[Len(stops)].attempts = 3


----------------------------------------------------------------------------
(* Properties of the fetch client *)

Transient == {"http_error", "exception"}

\* the value a fetch returns for a resource that answers 404
ReturnedAbsent == Returned(FetchPage(Absent, [i \in 1..3 |-> "ok"]))

\* C13: a fetch whose three attempts all fail transiently issues exactly
\* three requests, sleeps 2^attempt seconds between them, each sleep longer
\* than the one before, and returns a value that differs from the value
\* returned for a 404
C13_ExhaustedIsPermanentFailure ==
    (fetches >= 1 /\ \A i \in 1..Len(fetched.resps) : fetched.resps[i] \in Transient)
    => /\ fetched.requests = 3
       /\ Len(fetched.sleeps) >= 2
       /\ \A i \in 1..Len(fetched.sleeps) : fetched.sleeps[i] = 2 ^ (i - 1)
       /\ \A i \in 1..(Len(fetched.sleeps) - 1) : fetched.sleeps[i] < fetched.sleeps[i + 1]
       /\ fetched.ret # ReturnedAbsent

\* C14: a 404 at attempt k, after k - 1 transient failures, ends the fetch with
\* Absent: k requests, the k - 1 sleeps of the failures before it, and the
\* 404 request as the last thing the call does
C14_AbsentAtOnce ==
    \A k \in 1..Len(fetched.resps) :
        (fetched.resps[k] = "404" /\ \A j \in 1..(k - 1) : fetched.resps[j] \in Transient)
        => /\ fetched.outcome = "Absent"
           /\ fetched.ret = "None"
           /\ fetched.requests = k
           /\ Len(fetched.sleeps) = k - 1
           /\ fetched.events[Len(fetched.events)].ev = "get"
           /\ Cardinality({p \in 1..Len(fetched.events) : fetched.events[p].ev = "get"}) = k

C14_Witness ==
    /\ fetches >= 1
    /\ fetched.resps[1] \in Transient /\ fetched.resps[2] \in Transient
    /\ fetched.resps[3] = "404"
    /\ fetched.outcome = "Absent" /\ fetched.sleeps = <<1, 2>>

\* C15: a fetch issues at most three requests for its key, a request after
\* the first only when every request before it failed transiently, and a
\* 200 at attempt k ends it with Found after exactly k requests
C15_AtMostMaxRetries ==
    /\ fetched.requests <= 3
    /\ \A j \in 1..(fetched.requests - 1) : fetched.resps[j] \in Transient
    /\ Cardinality({p \in 1..Len(fetched.events) : fetched.events[p].ev = "get"})
          = fetched.requests
    /\ \A k \in 1..Len(fetched.resps) :
          (fetched.resps[k] = "200" /\ \A j \in 1..(k - 1) : fetched.resps[j] \in Transient)
          => (fetched.outcome = "Found" /\ fetched.requests = k /\ fetched.ret = "response")

C15_Witness ==
    /\ fetches >= 1
    /\ fetched.resps[1] = "exception" /\ fetched.resps[2] = "http_error"
    /\ fetched.resps[3] = "200"
    /\ fetched.outcome = "Found" /\ fetched.requests = 3

\* C16: over the lifetime of the bill scraper's fetch client the root
\* resource is requested exactly once, however many fetch calls are made
C16_BootstrapOnce == (client = "bill" /\ fetches >= 1) => bootstraps = 1

\* time slept between the request at position i of the wire and the next
\* request, in half seconds
RECURSIVE SleptAfter(_)
SleptAfter(i) ==
    IF i >= Len(wire) \/ wire[i + 1].ev # "sleep" THEN 0
    ELSE wire[i + 1].n + SleptAfter(i + 1)

\* position i of the wire is a request that is followed by another request
RequestBeforeRequest(i) ==
    /\ wire[i].ev # "sleep"
    /\ \E j \in (i + 1)..Len(wire) : wire[j].ev # "sleep"

\* C19: between any two consecutive requests of a run, to the root resource
\* or to a key, at least the configured delay elapses
C19_RequestsSpaced ==
    \A i \in 1..Len(wire) : RequestBeforeRequest(i) => SleptAfter(i) >= delay


----------------------------------------------------------------------------
(* Properties of task failures and of the concurrency of a scan *)

\* C17: when the call for a key of a closed scan returns False or raises,
\* the scan counts exactly one failure for it and goes on with its loop;
\* every key of the list is still attempted, and the scan ends with a
\* summary in which every attempt is a success or a failure
C17_FailureIsPerTask ==
    /\ [][(scanPc = "call" /\ scanPc' # "call")
             => /\ scanPc' = "loop" /\ processed' = processed + 1
                /\ stats'.total_attempted = stats.total_attempted
                /\ IF ret[1] = "True"
                   THEN stats' = [stats EXCEPT !.total_successful = @ + 1]
                   ELSE stats' = [stats EXCEPT !.total_failed = @ + 1]]_vars
    /\ [](scanPc = "call" => pc[1] # "idle")
    /\ [](scanPc = "finished"
             => /\ processed = Len(KeyList(scanArgs))
                /\ stats.total_attempted = Len(KeyList(scanArgs))
                /\ stats.total_successful + stats.total_failed + stats.total_skipped
                      = stats.total_attempted)

C17_Witness ==
    /\ scanPc = "finished" /\ runs = 1
    /\ Len(KeyList(scanArgs)) = 2
    /\ RowsOfKey(db, KeyList(scanArgs)[1]) = {}
    /\ RowsOfKey(db, KeyList(scanArgs)[2]) # {}
    /\ site[KeyList(scanArgs)[1]].kind = "page"
    /\ stats.total_failed = 1 /\ stats.total_successful = 1

\* C18: a call never goes past the anchor check with a page that lacks the
\* anchor; it returns False right after the fetch, with the store and its
\* own session left without any new row
C18_NoAnchorIsTaskFailure ==
    /\ [](\A w \in Workers :
             pc[w] \in {"check", "member", "insert", "children", "commit"}
             => page[w].kind = "page")
    /\ [][\A w \in Workers :
             (pc[w] = "fetch" /\ result'[w] = "Invalid")
             => /\ pc'[w] = "done" /\ ret'[w] = "False"
                /\ db' = db
                /\ pending'[w] = EmptyDb]_vars

C18_Witness ==
    \E w \in Workers :
        /\ pc[w] = "done" /\ result[w] = "Invalid" /\ ret[w] = "False"
        /\ key[w] \in MemberKeys
        /\ RowsOfKey(db, key[w]) = {}
        /\ db["bills"] # {}

\* C20: while a scan with concurrency limit N runs, N lies between 1 and 8
\* and at most N pipelines are in progress
C20_AtMostNPipelines ==
    scanPc # "idle" =>
        /\ scanArgs.max_workers \in 1..8
        /\ Cardinality({w \in Workers : pc[w] # "idle"}) <= scanArgs.max_workers

C20_Witness ==
    /\ scanPc = "call" /\ scanArgs.max_workers = 1
    /\ pc[1] = "commit" /\ pending[1]["bills"] # {}
    /\ processed = 1


----------------------------------------------------------------------------
(* Further properties of the fetch client *)

\* C30: a fetch whose three attempts all fail transiently sleeps 1 s after
\* the first attempt and 2 s after the second and does not sleep after the
\* third, whether the failures are error statuses or exceptions
C30_SameBackoffAnyFailure ==
    (fetches >= 1 /\ \A i \in 1..Len(fetched.resps) : fetched.resps[i] \in Transient)
    => /\ fetched.sleeps = <<1, 2>>
       /\ fetched.events[Len(fetched.events)].ev = "get"

----------------------------------------------------------------------------
(* Further properties of closed scans *)

NoRepeat(q) == \A i, j \in 1..Len(q) : i # j => q[i] # q[j]

\* C21: no key is in two pipelines at the same time: two pipelines in
\* progress never hold the same key, the scan starts the pipeline of a key
\* only when no pipeline is in progress, also for a key the list names again,
\* and a range string that names a number twice yields each key once
C21_NoKeyInFlightTwice ==
    /\ [](\A v, w \in Workers : (v # w /\ pc[v] # "idle" /\ pc[w] # "idle") => key[v] # key[w])
    /\ [][Len(dispatched') > Len(dispatched) => \A w \in Workers : pc[w] = "idle"]_vars
    /\ []((/\ scanArgs.op \in {"members_by_range", "bills_by_range"}
           /\ scanArgs.op = "bills_by_range" => NoRepeat(scanArgs.types))
          => NoRepeat(KeyList(scanArgs)))

\* the list names a key twice and its second pipeline is in progress after
\* the first one has finished
C21_Witness ==
    /\ scanArgs.op = "specific_bills" /\ Len(scanArgs.list) = 2
    /\ scanArgs.list[1] = scanArgs.list[2]
    /\ scanPc = "call" /\ processed = 1 /\ runs = 0
    /\ Len(dispatched) = 2 /\ dispatched[1] = dispatched[2]
    /\ pc[1] = "check" /\ key[1] = dispatched[1]

----------------------------------------------------------------------------
(* Further properties of ingestion *)

\* the member of the key of pipeline w has a term of another year and none
\* of the year of the key
OtherYearOnly(w) ==
    /\ key[w] \in MemberKeys
    /\ \E t \in db["member_terms"] : t.member_id = key[w].member_id /\ t.year # key[w].year
    /\ ~\E t \in db["member_terms"] : t.member_id = key[w].member_id /\ t.year = key[w].year

\* C24: the existence check of member ingestion is on (member_id, year): a
\* member who has a term of another year only is not skipped by a call that
\* runs on (one whose process is not killed), and the commit
\* of the call adds one term of the new year with the committee memberships
\* of the page, leaves the terms and memberships there were as they are and
\* leaves the one Member row of the member alone
C24_NewTermForOtherYear ==
    /\ [][\A w \in Workers :
            (pc[w] = "check" /\ OtherYearOnly(w) /\ pc'[w] \notin {"check", "idle"})
            => (pc'[w] = "member" /\ db' = db)]_vars
    /\ [][\A w \in Workers :
            (pc[w] = "commit" /\ OtherYearOnly(w) /\ pc'[w] = "done" /\ result'[w] = "Inserted")
            => /\ \E i \in 1..(Cardinality(db["member_terms"]) + 1) :
                    /\ Added("member_terms") = {MemberTermRow(i, key[w])}
                    /\ Cardinality(Added("member_committees")) = page[w].committees
                    /\ \A c \in Added("member_committees") : c.member_term_id = i
               /\ db["member_terms"] \subseteq db'["member_terms"]
               /\ db["member_committees"] \subseteq db'["member_committees"]
               /\ db'["members"] = db["members"]
               /\ Cardinality({r \in db'["members"] : r.member_id = key[w].member_id}) = 1]_vars

\* the member has two terms, each with a committee membership, and one
\* Member row; the call that added the second term has just returned
C24_Witness ==
    \E w \in Workers : \E a, b \in db["member_terms"] :
        /\ pc[w] = "done" /\ result[w] = "Inserted" /\ key[w] \in MemberKeys
        /\ a.member_id = key[w].member_id /\ b.member_id = key[w].member_id
        /\ a.year # key[w].year /\ b.year = key[w].year /\ a.id < b.id
        /\ \E c, d \in db["member_committees"] : c.member_term_id = a.id /\ d.member_term_id = b.id
        /\ Cardinality(db["members"]) = 1

----------------------------------------------------------------------------
(* Further properties of open-ended scans *)

\* the step is an attempt of the bill scan
Attempt == log' # log /\ log' # <<>>

\* C22: in the scan of one bill type the outcomes reach the miss counter in
\* ascending order of the numbers: the outcome a step applies is the outcome
\* of the number after all the numbers attempted so far, whose outcomes have
\* all been applied and stay as they are
C22_OutcomesInKeyOrder ==
    [][Attempt =>
          /\ Len(log') = Len(log) + 1 /\ SubSeq(log', 1, Len(log)) = log
          /\ last_key' = Len(log) + 1
          /\ log # <<>> => last_key' > last_key
          /\ success' = (log'[last_key'] = "Found")
          /\ consecutive_404s' = (IF success' THEN 0 ELSE consecutive_404s + 1)]_vars

\* a miss, a hit, a miss: applied in this order the scan goes on
C22_Witness ==
    /\ scanning = "while"
    /\ log = <<"Absent", "Found", "Absent">>
    /\ last_key = 3 /\ consecutive_404s = 1 /\ bill_number = 4

\* C26: when the scan of a year goes to the next bill type, the number is 1
\* and the miss counter is 0 again, the first attempt of every type is that
\* of number 1, and a type stops on the miss limit only after two misses of
\* its own, whatever happened in the types and years before
C26_StatePerDimension ==
    /\ [][(type_index' # type_index /\ type_index' >= 1)
           => /\ bill_number' = 1 /\ consecutive_404s' = 0 /\ log' = <<>>
              /\ scanning' = "while"]_vars
    /\ []((scanning = "while" /\ log = <<>>) => (bill_number = 1 /\ consecutive_404s = 0))
    /\ [](JustStopped =>
            \A i \in 1..Len(stops) :
               /\ stops[i].attempts >= 2
               /\ stops[i].reason = "MissLimit" => stops[i].attempts >= stops[i].found + 2)
    /\ []((JustStopped /\ stops[Len(stops)].reason = "MissLimit")
            => (log[Len(log)] # "Found" /\ log[Len(log) - 1] # "Found"))

\* in the last year the first type stopped after two misses and the second
\* type is three hits into its own scan
C26_Witness ==
    /\ scanning = "while" /\ scan_year = end_year /\ type_index = 2
    /\ Len(stops) = 1 /\ stops[1].reason = "MissLimit" /\ stops[1].attempts = 2
    /\ log = <<"Found", "Found", "Found">>
    /\ consecutive_404s = 0 /\ bill_number = 4

\* C27: the miss counter is always between 0 and 2; a number is attempted
\* only while the counter is below 2; every attempt is that of the current
\* number and moves the number on by one, so that the numbers attempted in a
\* bill type are 1, 2, 3, ... without a gap
C27_CounterAndCursor ==
    /\ [](consecutive_404s \in 0..2)
    /\ []((scanning \in {"while", "for"} /\ type_index >= 1)
            => /\ bill_number = Len(log) + 1
               /\ log # <<>> => last_key = Len(log))
    /\ [][Attempt =>
             /\ consecutive_404s < 2
             /\ last_key' = bill_number
             /\ bill_number' = bill_number + 1]_vars

\* four attempts of one type, the numbers 1 to 4
C27_Witness ==
    /\ scanning = "while" /\ type_index = 1
    /\ log = <<"Found", "Absent", "Found", "Found">>
    /\ last_key = 4 /\ bill_number = 5 /\ consecutive_404s = 0

\* C29: when scrape_member has returned True for a member id and a year, the
\* store holds a member term of that id and year
C29_SuccessMeansStored ==
    (scanning = "members" /\ last_key >= 1 /\ success)
    => member_term_exists(db["member_terms"], [member_id |-> last_key, year |-> scan_year])

\* C25: the scan terminates whatever the source answers: every fetch makes
\* between one and max_retries requests, the scan of every bill type leaves
\* its while loop, stopped on the miss limit or on the safety limit, the loop
\* over the member ids of a year comes to its end, and the full scrape is
\* done in the end
C25_ScansTerminate ==
    /\ \A k \in Keys : \A sv \in SiteValues(k), net \in NetSeqs :
          FetchPage(sv, net).requests \in 1..max_retries
    /\ (scanning = "while") ~> (JustStopped /\ stops[Len(stops)].reason \in {"MissLimit", "SafetyCeiling"})
    /\ (scanning = "members") ~> (scanning \in {"members_call", "done"})
    /\ <>[](scanning = "done")

\* the full scrape is done, its last bill type stopped on the safety limit
\* and a member term of the last year is stored
C25_Witness ==
    /\ scanning = "done" /\ scan_year = end_year
    /\ last_key = MemberLimit
    /\ \E t \in db["member_terms"] : t.year = end_year /\ t.member_id = MemberLimit

----------------------------------------------------------------------------
(* Properties of the statistics *)

\* C23: when no record_ call is in progress, every counter equals the
\* number of calls of its record_ method since the last reset
C23_NoLostUpdate ==
    (\A w \in Workers : inc[w] = NoInc) => \A f \in StatFields : counters[f] = calls[f]

============================================================================
